---- MODULE Spec2Model ----
(***************************************************************************)
(* Model of scripts/convert_full_gramps.py: the record parsers' handle     *)
(* assignment and name extraction, the family <-> person cross-linking     *)
(* pass of convert(), and build_treant_tree with its node cache.           *)
(*                                                                         *)
(* Python values are modelled as follows.  A handle is a string; Python's  *)
(* None is the value None below.  A text (element text, display name) is a *)
(* sequence of tokens in which the token " " is whitespace, so that        *)
(* str.strip and " ".join are computed and not assumed.  A dict that       *)
(* Python keeps in insertion order is a function plus the sequence of its  *)
(* keys.  Tree nodes are objects on a heap and a children list holds       *)
(* addresses, because build_person_node hands out the same dict object     *)
(* more than once.                                                         *)
(***************************************************************************)
EXTENDS Integers, Sequences, FiniteSets, TLC

VARIABLES
    people,       \* convert: people, handle -> person record
    porder,       \* convert: insertion order of the keys of people
    families,     \* convert: families, in insertion order (records carry the key)
    fi,           \* convert: index of the family the linking loop handles next
    pc,           \* position in convert / in the parser under study
    root_handle,  \* build_treant_tree: root_handle argument
    heap,         \* the node dicts created by build_treant_tree, by address
    node_cache,   \* build_treant_tree: node_cache, handle -> address
    stack,        \* the activations of build_person_node (and the caller's loop)
    root,         \* build_treant_tree: the returned node's address (0: none yet)
    elements,     \* parse_*: the classified elements handed to the parser
    category,     \* parse_*: which parser runs ("person", "family", "obj")
    out,          \* parse_*: out, handle -> record
    oorder,       \* parse_*: insertion order of the keys of out
    ei,           \* parse_*: index of the element the loop handles next
    shown         \* display_info results, handle -> text

vars == <<people, porder, families, fi, pc, root_handle, heap, node_cache,
          stack, root, elements, category, out, oorder, ei, shown>>

convertVars == <<people, porder, families, fi, root_handle, heap, node_cache,
                 stack, root>>
parseVars == <<elements, category, out, oorder, ei, shown>>

(***************************************************************************)
(* Bounds of the model.                                                    *)
(***************************************************************************)
MaxChildren == 3    \* child references in one family
MaxRefs == 4        \* father/mother/child references over all families
MaxElements == 2    \* classified elements handed to one parser
MaxNames == 2       \* name elements of one person element

\* The keys the people and families mappings can have, in insertion order
\* (the mappings of a run are prefixes of these).
PersonKeys == <<"H1", "H2">>
FamilyKeys == <<"F1", "F2">>

(***************************************************************************)
(* Python values.                                                          *)
(***************************************************************************)
None == "<None>"

\* Python truthiness of an Optional[str]: None and "" are falsy.
Truthy(x) == x # None /\ x # ""

\* A handle as a text: one token, or the empty text for "".
Str(h) == IF h = "" THEN <<>> ELSE <<h>>

RECURSIVE LStrip(_)
LStrip(t) == IF t # <<>> /\ Head(t) = " " THEN LStrip(Tail(t)) ELSE t

RECURSIVE RStrip(_)
RStrip(t) ==
    IF t # <<>> /\ t[Len(t)] = " " THEN RStrip(SubSeq(t, 1, Len(t) - 1)) ELSE t

\* str.strip()
Strip(t) == RStrip(LStrip(t))

\* " ".join((a, b))
Join2(a, b) == a \o <<" ">> \o b

\* None where a text is expected (a text never holds the token None).
NoText == <<None>>

\* Python truthiness of an Optional text: None and "" are falsy.
TruthyText(t) == t # NoText /\ t # <<>>

\* x or y, on texts
OrText(x, y) == IF TruthyText(x) THEN x ELSE y

(***************************************************************************)
(* The records convert() hands to the linking pass.                        *)
(***************************************************************************)
\* A handle that is no key of the people mapping.
Unknown == "HX"

\* What a father/mother reference can be (parse_families stores no "").
ParentRefs(n) == {PersonKeys[i] : i \in 1..n} \cup {Unknown}
\* What a child reference can be (parse_families stores ref="" as "").
ChildRefs(n) == ParentRefs(n) \cup {""}

Present(x) == IF x = None THEN 0 ELSE 1

\* The names list parse_people stored for the i-th person: a formatted name,
\* given and surname only, or the fallback entry with nothing in it.
NamesOf(i) ==
    CASE i % 3 = 1 -> <<[formatted |-> <<"Jane", " ", "Doe">>, given |-> NoText,
                         surname |-> NoText]>>
      [] i % 3 = 2 -> <<[formatted |-> NoText, given |-> <<"John">>,
                         surname |-> <<"Doe">>]>>
      [] OTHER     -> <<[formatted |-> NoText, given |-> NoText,
                         surname |-> NoText]>>

\* The person record as parse_people leaves it (fields the linking pass and
\* the tree do not read are left out).
NewPerson(h, names) ==
    [handle |-> h, names |-> names, parents |-> <<>>,
     families_as_parent |-> <<>>, families_as_child |-> None]

\* Family records (without their key) holding exactly r references.
FamBodies(n, r) ==
    UNION { { [father |-> pm[1], mother |-> pm[2], children |-> c] :
                c \in [1..(r - Present(pm[1]) - Present(pm[2])) -> ChildRefs(n)] } :
            pm \in { q \in (ParentRefs(n) \cup {None}) \X (ParentRefs(n) \cup {None}) :
                       r - Present(q[1]) - Present(q[2]) \in 0..MaxChildren } }

Keyed(s) ==
    [i \in 1..Len(s) |->
        [handle |-> FamilyKeys[i], father |-> s[i].father,
         mother |-> s[i].mother, children |-> s[i].children]]

(***************************************************************************)
(* convert(): the cross-linking pass, lines 421-429.                       *)
(***************************************************************************)
\* Mutant of PresentParents: the mother is left out of the extension.
PresentParentsFatherOnly(fam) == SelectSeq(<<fam.father>>, Truthy)

\* [x for x in (fam.get('father'), fam.get('mother')) if x]
PresentParents(fam) == SelectSeq(<<fam.father, fam.mother>>, Truthy)

\* Mutant of LinkChild: families_as_child is kept once it is set (the first
\* family wins).
LinkChildFirstWins(pp, ch, fam) ==
    [pp EXCEPT ![ch].families_as_child = IF @ = None THEN fam.handle ELSE @,
               ![ch].parents = @ \o PresentParents(fam)]

\* The body of "if ch in people:".
LinkChild(pp, ch, fam) ==
    [pp EXCEPT ![ch].families_as_child = fam.handle,
               ![ch].parents = @ \o PresentParents(fam)]

RECURSIVE LinkChildren(_, _, _)
\* for ch in fam.get('children', []), from the i-th child on.
LinkChildren(pp, fam, i) ==
    IF i > Len(fam.children) THEN pp
    ELSE LET ch == fam.children[i]
         IN  LinkChildren(IF ch \in DOMAIN pp THEN LinkChild(pp, ch, fam) ELSE pp,
                          fam, i + 1)

\* One turn of "for parent in (father, mother)".
LinkParent(pp, parent, fh) ==
    IF Truthy(parent) /\ parent \in DOMAIN pp
    THEN [pp EXCEPT ![parent].families_as_parent = Append(@, fh)]
    ELSE pp

\* Mutant of LinkParents: only the father is given the family.
LinkParentsFatherOnly(pp, fam) == LinkParent(pp, fam.father, fam.handle)

\* for parent in (fam.get('father'), fam.get('mother')), lines 427-429.
LinkParents(pp, fam) ==
    LinkParent(LinkParent(pp, fam.father, fam.handle), fam.mother, fam.handle)

\* One turn of "for fh, fam in families.items()".
LinkFamily ==
    /\ pc = "link"
    /\ fi <= Len(families)
    /\ people' = LinkParents(LinkChildren(people, families[fi], 1), families[fi])
    /\ fi' = fi + 1
    /\ UNCHANGED <<porder, families, pc, root_handle, heap, node_cache, stack,
                   root>>
    /\ UNCHANGED parseVars

(***************************************************************************)
(* build_treant_tree, lines 305-390.                                       *)
(***************************************************************************)
\* display_info(p)[0], lines 313-329.
display_info(p) ==
    LET formatted == SelectSeq(p.names, LAMBDA nm : TruthyText(nm.formatted))
        primary == IF formatted # <<>> THEN formatted[1] ELSE p.names[1]
    IN  IF p.names # <<>>
        THEN OrText(primary.formatted,
                    Strip(Join2(OrText(primary.given, <<>>),
                                OrText(primary.surname, <<>>))))
        ELSE Str(p.handle)

\* Mutant of LeafNode: the leaf is given the fields of a person node.
LeafNodeWithHandle(handle) ==
    [handle |-> handle, text |-> [name |-> Str(handle)], children |-> <<>>]

\* {"text": {"name": handle or "<Unknown>"}}, line 336.
LeafNode(handle) ==
    [text |-> [name |-> IF Truthy(handle) THEN Str(handle) ELSE <<"<Unknown>">>]]

\* The node dict of lines 341-347, before its "children" key is set.
PersonNode(pp, handle) ==
    [id |-> handle, handle |-> handle,
     text |-> [name |-> display_info(pp[handle]), title |-> <<>>],
     meta |-> [person_handle |-> handle]]

\* Mutant of PseudoNode: the children key is set only for a non-empty list.
PseudoNodeChildrenIfAny(kids) ==
    IF kids = <<>>
    THEN [text |-> [name |-> <<"Roots">>], pseudo |-> TRUE,
          HTMLclass |-> "pseudo-root"]
    ELSE [text |-> [name |-> <<"Roots">>], pseudo |-> TRUE,
          HTMLclass |-> "pseudo-root", children |-> kids]

\* The synthetic root of lines 384-389.
PseudoNode(kids) ==
    [text |-> [name |-> <<"Roots">>], pseudo |-> TRUE,
     HTMLclass |-> "pseudo-root", children |-> kids]

\* node["children"] = node_children, lines 366-369.
WithChildren(node, kids) == ("children" :> kids) @@ node

RECURSIVE FamilyChildren(_, _, _)
\* children_handles of lines 350-357: the truthy child handles of the
\* families of fap, from its i-th entry on.
FamilyChildren(fams, fap, i) ==
    IF i > Len(fap) THEN <<>>
    ELSE LET hit == SelectSeq(fams, LAMBDA f : f.handle = fap[i])
         IN  (IF hit = <<>> THEN <<>> ELSE SelectSeq(hit[1].children, Truthy))
             \o FamilyChildren(fams, fap, i + 1)

\* Mutant of RootCandidates: the fallback takes the last person.
RootCandidatesLastPerson(pp, order) ==
    LET roots == SelectSeq(order, LAMBDA h : ~Truthy(pp[h].families_as_child))
    IN  IF roots # <<>> THEN roots
        ELSE IF order = <<>> THEN <<>> ELSE <<order[Len(order)]>>

\* roots of lines 376-379: the persons without families_as_child, or else
\* list(people.keys())[:1].
RootCandidates(pp, order) ==
    LET roots == SelectSeq(order, LAMBDA h : ~Truthy(pp[h].families_as_child))
    IN  IF roots # <<>> THEN roots
        ELSE IF order = <<>> THEN <<>> ELSE <<order[1]>>

\* An activation: of build_person_node (kind "person", filling the node at
\* address node from handles) or of the body of build_treant_tree (kind
\* "single": root = build_person_node(h); kind "multi": the list
\* comprehension of line 388).
Frame(kind, node, handles) ==
    [kind |-> kind, node |-> node, handles |-> handles, idx |-> 1,
     seen |-> {}, kids |-> <<>>]

\* The activations the body of build_treant_tree starts with, lines 373-388.
TopFrame(pp, order, rh) ==
    IF Truthy(rh) THEN Frame("single", 0, <<rh>>)
    ELSE LET roots == RootCandidates(pp, order)
         IN  Frame(IF Len(roots) = 1 THEN "single" ELSE "multi", 0, roots)

Top == stack[Len(stack)]
Below == SubSeq(stack, 1, Len(stack) - 1)
\* The handle the top activation's loop is at.
Cur == Top.handles[Top.idx]
InLoop == pc = "build" /\ stack # <<>> /\ Top.idx <= Len(Top.handles)
\* Mutant of Skipped: a handle seen before is built again.
SkippedNoDedup == Top.kind = "person" /\ ~Truthy(Cur)

\* "if not ch or ch in seen: continue", line 362 (the caller's loops have no
\* such test).
Skipped == Top.kind = "person" /\ (~Truthy(Cur) \/ Cur \in Top.seen)
\* seen.add(ch), line 364.
Seen(f) == IF f.kind = "person" THEN [f EXCEPT !.seen = @ \cup {Cur}] ELSE f
\* The caller takes the returned node: node_children.append(...), line 365.
Taken(f, addr) == [f EXCEPT !.kids = Append(@, addr), !.idx = @ + 1]

\* build_treant_tree is called once linking is over, line 453.
StartBuild(rh) ==
    /\ pc = "link"
    /\ fi > Len(families)
    /\ pc' = "build"
    /\ root_handle' = rh
    /\ stack' = <<TopFrame(people, porder, rh)>>
    /\ UNCHANGED <<people, porder, families, fi, heap, node_cache, root>>
    /\ UNCHANGED parseVars

\* line 362-363: a handle already seen is passed over.
DedupSkip ==
    /\ InLoop
    /\ Skipped
    /\ stack' = Append(Below, [Top EXCEPT !.idx = @ + 1])
    /\ UNCHANGED <<people, porder, families, fi, pc, root_handle, heap,
                   node_cache, root>>
    /\ UNCHANGED parseVars

\* build_person_node(h) for a handle that is no key of people, lines 335-336.
CallLeaf ==
    /\ InLoop
    /\ ~Skipped
    /\ Cur \notin DOMAIN people
    /\ heap' = Append(heap, LeafNode(Cur))
    /\ stack' = Append(Below, Taken(Seen(Top), Len(heap) + 1))
    /\ UNCHANGED <<people, porder, families, fi, pc, root_handle, node_cache,
                   root>>
    /\ UNCHANGED parseVars

\* build_person_node(h) for a handle already in node_cache, lines 337-338.
CallCached ==
    /\ InLoop
    /\ ~Skipped
    /\ Cur \in DOMAIN people
    /\ Cur \in DOMAIN node_cache
    /\ stack' = Append(Below, Taken(Seen(Top), node_cache[Cur]))
    /\ UNCHANGED <<people, porder, families, fi, pc, root_handle, heap,
                   node_cache, root>>
    /\ UNCHANGED parseVars

\* build_person_node(h) for a person not built yet, lines 339-357: the node
\* is created and cached, and its own loop starts.
CallNew ==
    /\ InLoop
    /\ ~Skipped
    /\ Cur \in DOMAIN people
    /\ Cur \notin DOMAIN node_cache
    /\ heap' = Append(heap, PersonNode(people, Cur))
    /\ node_cache' = (Cur :> (Len(heap) + 1)) @@ node_cache
    /\ stack' = Append(Append(Below, Seen(Top)),
                       Frame("person", Len(heap) + 1,
                             FamilyChildren(families,
                                            people[Cur].families_as_parent, 1)))
    /\ UNCHANGED <<people, porder, families, fi, pc, root_handle, root>>
    /\ UNCHANGED parseVars

\* lines 366-370: the loop of build_person_node is over, the node gets its
\* children list and goes back to the caller.
ReturnNode ==
    /\ pc = "build"
    /\ stack # <<>>
    /\ Top.kind = "person"
    /\ Top.idx > Len(Top.handles)
    /\ heap' = [heap EXCEPT ![Top.node] = WithChildren(@, Top.kids)]
    /\ stack' = Append(SubSeq(Below, 1, Len(Below) - 1),
                       Taken(Below[Len(Below)], Top.node))
    /\ UNCHANGED <<people, porder, families, fi, pc, root_handle, node_cache,
                   root>>
    /\ UNCHANGED parseVars

\* lines 374, 381 and 384-390: the root is the one node built, or a new
\* synthetic node over the nodes built.
FinishRoot ==
    /\ pc = "build"
    /\ stack # <<>>
    /\ Top.kind # "person"
    /\ Top.idx > Len(Top.handles)
    /\ IF Top.kind = "single"
       THEN /\ root' = Top.kids[1]
            /\ heap' = heap
       ELSE /\ heap' = Append(heap, PseudoNode(Top.kids))
            /\ root' = Len(heap) + 1
    /\ stack' = <<>>
    /\ pc' = "done"
    /\ UNCHANGED <<people, porder, families, fi, root_handle, node_cache>>
    /\ UNCHANGED parseVars

(***************************************************************************)
(* The conversion: linking, then the tree.                                 *)
(***************************************************************************)
\* What root_person can be: absent, "", a key of people or some other handle.
RootHandles ==
    {None, ""} \cup {PersonKeys[i] : i \in 1..Len(PersonKeys)} \cup {Unknown}

RECURSIVE FamiliesAre(_, _, _, _)
\* families holds the records of acc and k more, which hold at most budget
\* references in all.
FamiliesAre(n, k, budget, acc) ==
    IF k = 0 THEN families = Keyed(acc)
    ELSE \E r \in 0..budget :
            \E b \in FamBodies(n, r) :
                FamiliesAre(n, k - 1, budget - r, Append(acc, b))

Init ==
    /\ \E n \in 0..Len(PersonKeys) :
          /\ porder = SubSeq(PersonKeys, 1, n)
          /\ people = [h \in {PersonKeys[i] : i \in 1..n} |->
                          NewPerson(h, NamesOf(CHOOSE i \in 1..n : PersonKeys[i] = h))]
          /\ \E k \in 0..Len(FamilyKeys) : FamiliesAre(n, k, MaxRefs, <<>>)
    /\ fi = 1
    /\ pc = "link"
    /\ root_handle = None
    /\ heap = <<>>
    /\ node_cache = <<>>
    /\ stack = <<>>
    /\ root = 0
    /\ elements = <<>>
    /\ category = "person"
    /\ out = <<>>
    /\ oorder = <<>>
    /\ ei = 1
    /\ shown = <<>>

Next ==
    \/ LinkFamily
    \/ \E rh \in RootHandles : StartBuild(rh)
    \/ DedupSkip
    \/ CallLeaf
    \/ CallCached
    \/ CallNew
    \/ ReturnNode
    \/ FinishRoot

Spec == Init /\ [][Next]_vars

\* convert() is straight-line code: a step that can be taken is taken.
FairSpec == Spec /\ WF_vars(Next)

\* convert() gets to the end of build_treant_tree.
Terminates == <>(pc = "done")

(***************************************************************************)
(* The record parsers, lines 162-300: parse_people, parse_families and     *)
(* parse_generic run over the elements of one category.                    *)
(***************************************************************************)
\* A child element or attribute that the element does not have.
Absent == <<"<Absent>">>

\* The prefix of a synthesized handle, lines 179, 246 and 295.
Prefix(cat) ==
    CASE cat = "person" -> "person_"
      [] cat = "family" -> "family_"
      [] OTHER          -> "obj_"

\* f"person_{len(out)+1}" and its like.
Synth(cat, n) == Prefix(cat) \o ToString(n)

RECURSIVE FirstText(_, _)
\* The loop of lines 170-173 from the i-th handle/id child on: the stripped
\* text of the first one that has any, as a handle (a stripped text of the
\* model is one token).
FirstText(kids, i) ==
    IF i > Len(kids) THEN None
    ELSE IF TruthyText(kids[i]) /\ Strip(kids[i]) # <<>> THEN Strip(kids[i])[1]
    ELSE FirstText(kids, i + 1)

\* extract_handle, lines 162-174.
extract_handle(el) ==
    IF el.handle # None THEN el.handle
    ELSE IF el.id # None THEN el.id
    ELSE FirstText(el.hkids, 1)

\* child.text.strip() if child.text else None, lines 191 and 214.
StripOrNone(t) == IF t = Absent \/ ~TruthyText(t) THEN NoText ELSE Strip(t)

\* (child.text or "").strip(), lines 193 and 195; None without such a child.
StripOrEmpty(t) == IF t = Absent THEN NoText ELSE Strip(OrText(t, <<>>))

\* One entry of names, lines 186-208.
ParseName(ne) ==
    [formatted |-> StripOrNone(ne.formatted),
     given |-> StripOrEmpty(ne.given),
     surname |-> StripOrEmpty(ne.surname)]

\* names of lines 183-215, with the fallback entry when there is no name
\* element.
ParseNames(el) ==
    IF el.names # <<>> THEN [i \in 1..Len(el.names) |-> ParseName(el.names[i])]
    ELSE <<[formatted |-> StripOrNone(el.display), given |-> NoText,
            surname |-> NoText]>>

\* The record a parser stores, lines 230-240, 279-285 and 296-299 (the raw
\* form and the fields nothing here reads are left out).
ParsedRecord(cat, h, el) ==
    CASE cat = "person" -> NewPerson(h, ParseNames(el))
      [] cat = "family" -> [handle |-> h, father |-> None, mother |-> None,
                            children |-> <<>>]
      [] OTHER          -> [handle |-> h]

\* The key an element is stored under: extract_handle(p) or the synthesized
\* handle, lines 179, 246 and 295.
HandleFor(cat, el, stored) ==
    IF Truthy(extract_handle(el)) THEN extract_handle(el)
    ELSE Synth(cat, stored + 1)

\* One turn of the parser's loop over its elements.
ParseElement ==
    /\ pc = "parse"
    /\ ei <= Len(elements)
    /\ LET h == HandleFor(category, elements[ei], Len(oorder))
       IN  /\ out' = (h :> ParsedRecord(category, h, elements[ei])) @@ out
           /\ oorder' = IF h \in DOMAIN out THEN oorder ELSE Append(oorder, h)
    /\ ei' = ei + 1
    /\ UNCHANGED <<elements, category, shown, pc>>
    /\ UNCHANGED convertVars

\* build_person_node asks display_info for the name of a parsed person,
\* line 340.
ShowPerson(h) ==
    /\ pc = "parse"
    /\ ei > Len(elements)
    /\ category = "person"
    /\ h \in DOMAIN out
    /\ h \notin DOMAIN shown
    /\ shown' = (h :> display_info(out[h])) @@ shown
    /\ UNCHANGED <<elements, category, out, oorder, ei, pc>>
    /\ UNCHANGED convertVars

\* The handle and id attributes and the handle/id children an element can
\* have.
HandleParts(cat) ==
    [handle : {None, "", "I1", Synth(cat, 2)},
     id : {None, "I1"},
     hkids : {<<>>, << <<" ">> >>, << <<" ", "I2", " ">> >>,
              <<NoText, <<"I2">>>>}]

\* The children a name element can have, each by its text.
NameElements ==
    [formatted : {Absent, NoText, <<" ">>, <<" ", "Jane", " ", "Doe">>},
     given : {Absent, <<"Jane", " ">>},
     surname : {Absent, NoText, <<"Doe">>}]

SeqsUpTo(S, n) == UNION {[1..k -> S] : k \in 0..n}

\* An element without name information.
Nameless(hp) ==
    [handle |-> hp.handle, id |-> hp.id, hkids |-> hp.hkids, names |-> <<>>,
     display |-> Absent]

\* The inputs of a parser: up to MaxElements elements that differ in how
\* they carry their handle, or one person element with up to MaxNames name
\* elements or a display child.
ParserInputs(cat) ==
    {[i \in 1..Len(hs) |-> Nameless(hs[i])] :
        hs \in SeqsUpTo(HandleParts(cat), MaxElements)}
    \cup (IF cat # "person" THEN {}
          ELSE {<<[handle |-> h, id |-> None, hkids |-> <<>>, names |-> ns,
                   display |-> d]>> :
                  h \in {None, "I1"}, ns \in SeqsUpTo(NameElements, MaxNames),
                  d \in {Absent, NoText, <<" ", "Disp">>}})

InitParse ==
    /\ category \in {"person", "family", "obj"}
    /\ elements \in ParserInputs(category)
    /\ out = <<>>
    /\ oorder = <<>>
    /\ ei = 1
    /\ shown = <<>>
    /\ pc = "parse"
    /\ people = <<>>
    /\ porder = <<>>
    /\ families = <<>>
    /\ fi = 1
    /\ root_handle = None
    /\ heap = <<>>
    /\ node_cache = <<>>
    /\ stack = <<>>
    /\ root = 0

NextParse ==
    \/ ParseElement
    \/ \E h \in DOMAIN out : ShowPerson(h)

SpecParse == InitParse /\ [][NextParse]_vars

(***************************************************************************)
(* Properties of the cross-linking pass.                                   *)
(***************************************************************************)
Range(s) == {s[i] : i \in 1..Len(s)}

\* The linking loop of convert() has handled every family.
Linked == fi > Len(families)

\* The positions of the families that list h as a child.
Listing(h) == {i \in 1..Len(families) : h \in Range(families[i].children)}

\* The father and mother handles a family record holds.
ParentsOf(fam) == {fam.father, fam.mother} \ {None}

\* C2 as stated: once linking is over, every known child H of every family
\* F has F's handle as its families_as_child and has every present
\* father/mother of F among its parents, also when H is a child of several
\* families.
C2_ChildOfEveryFamily ==
    Linked =>
        \A i \in 1..Len(families) :
            \A h \in Range(families[i].children) \cap DOMAIN people :
                /\ people[h].families_as_child = families[i].handle
                /\ ParentsOf(families[i]) \subseteq Range(people[h].parents)

\* C2 as amended: once linking is over, every known child H of every family
\* F has every present father/mother of F among its parents, and its
\* families_as_child is the handle of F or of a later family that lists H too
\* (so it is F's handle when no later family lists H).
C2_ChildOfLastFamily ==
    Linked =>
        \A i \in 1..Len(families) :
            \A h \in Range(families[i].children) \cap DOMAIN people :
                /\ \E k \in i..Len(families) :
                      /\ k \in Listing(h)
                      /\ people[h].families_as_child = families[k].handle
                /\ (\A k \in (i + 1)..Len(families) : k \notin Listing(h))
                      => people[h].families_as_child = families[i].handle
                /\ ParentsOf(families[i]) \subseteq Range(people[h].parents)

\* A person is a child of two families that have parents, and linking is over.
C2_Witness ==
    /\ Linked
    /\ \E h \in DOMAIN people :
          /\ Cardinality(Listing(h)) >= 2
          /\ \A i \in Listing(h) : ParentsOf(families[i]) # {}

RECURSIVE Repeat(_, _)
Repeat(s, n) == IF n = 0 THEN <<>> ELSE s \o Repeat(s, n - 1)

\* How often h occurs in a family's child sequence.
Occurrences(fam, h) == Cardinality({j \in 1..Len(fam.children) : fam.children[j] = h})

\* A family's present father, then its present mother.
FatherThenMother(fam) ==
    (IF fam.father = None THEN <<>> ELSE <<fam.father>>)
    \o (IF fam.mother = None THEN <<>> ELSE <<fam.mother>>)

RECURSIVE ExpectedParents(_, _)
ExpectedParents(h, i) ==
    IF i > Len(families) THEN <<>>
    ELSE Repeat(FatherThenMother(families[i]), Occurrences(families[i], h))
         \o ExpectedParents(h, i + 1)

\* C9: once linking is over, families_as_child of every person P is absent
\* if no family lists P as a child and else the handle of the last family, in
\* mapping order, that lists P; parents is, family after family and occurrence
\* of P after occurrence, the family's present father then its present mother.
C9_ChildSide ==
    Linked =>
        \A h \in DOMAIN people :
            /\ people[h].families_as_child =
                  IF Listing(h) = {} THEN None
                  ELSE families[CHOOSE i \in Listing(h) :
                                   \A k \in Listing(h) : k <= i].handle
            /\ people[h].parents = ExpectedParents(h, 1)

\* A person listed by two families, twice by one of them, whose parents hold a
\* handle more than once.
C9_Witness ==
    /\ Linked
    /\ \E h \in DOMAIN people :
          /\ Cardinality(Listing(h)) >= 2
          /\ \E i \in Listing(h) : Occurrences(families[i], h) >= 2
          /\ Len(people[h].parents) > Cardinality(Range(people[h].parents))

\* The position of the family with handle fh.
FamilyIndex(fh) == CHOOSE i \in 1..Len(families) : families[i].handle = fh

\* C10, the result: once linking is over, a family's handle occurs in
\* families_as_parent of a person exactly if the person's handle is the
\* family's father or mother, and the entries follow the family mapping's
\* order.
C10_Result ==
    Linked =>
        \A h \in DOMAIN people :
            LET fap == people[h].families_as_parent
            IN  /\ \A i \in 1..Len(families) :
                      families[i].handle \in Range(fap) <=> h \in ParentsOf(families[i])
                /\ \A a, b \in 1..Len(fap) :
                      a < b => FamilyIndex(fap[a]) <= FamilyIndex(fap[b])

\* C10: the result above, and no step of the conversion adds or removes a
\* person handle or changes a family record (unresolved father, mother and
\* child handles are passed over).
C10_ParentSide ==
    /\ []C10_Result
    /\ [][DOMAIN people' = DOMAIN people /\ families' = families]_vars

\* Linking is over for a family whose father is known and whose mother and
\* one child are no keys of people, and a person is parent of two families.
C10_Witness ==
    /\ Linked
    /\ \E i \in 1..Len(families) :
          /\ families[i].father \in DOMAIN people
          /\ families[i].mother = Unknown
          /\ Unknown \in Range(families[i].children)
    /\ \E h \in DOMAIN people : Len(people[h].families_as_parent) >= 2

(***************************************************************************)
(* Properties of build_treant_tree.                                        *)
(***************************************************************************)
\* build_treant_tree has returned.
Built == pc = "done"

\* convert() passes a root handle that build_treant_tree takes as given
\* ("if root_handle:", line 373).
ExplicitRoot == Truthy(root_handle)

HasKey(a, k) == k \in DOMAIN heap[a]

\* The addresses in the children list of the node at a.
Kids(a) == IF HasKey(a, "children") THEN Range(heap[a].children) ELSE {}

RECURSIVE Closure(_)
\* The addresses reached from those of S by following children lists.
Closure(S) ==
    LET more == S \cup UNION {Kids(a) : a \in S}
    IN  IF more = S THEN S ELSE Closure(more)

\* The node at a stands for person h: it carries h as its handle.
IsPersonNode(a, h) == HasKey(a, "handle") /\ heap[a].handle = h

\* The node at a is a bare leaf showing handle h: only a display text.
IsLeafNode(a, h) == DOMAIN heap[a] = {"text"} /\ heap[a].text = [name |-> Str(h)]

\* C1 as stated (the tree part): what build_treant_tree returns is a finite
\* tree, no node below the root is met again on a path that starts at it.
C1_FiniteTree ==
    Built => \A a \in Closure({root}) : a \notin Closure(Kids(a))

\* The persons without a parent family, in the order of the people mapping.
Candidates == SelectSeq(porder, LAMBDA h : people[h].families_as_child = None)

\* C3: without an explicit root handle, one candidate gives that person's
\* node as the root; two or more give a synthetic node (pseudo flag, text
\* "Roots", no handle) over the candidates' nodes in candidate order; none,
\* with a person in the mapping, gives the first person's node.
C3_RootSelection ==
    (Built /\ ~ExplicitRoot) =>
        /\ Len(Candidates) = 1 => IsPersonNode(root, Candidates[1])
        /\ Len(Candidates) >= 2 =>
              /\ HasKey(root, "pseudo") /\ heap[root].pseudo = TRUE
              /\ heap[root].text.name = <<"Roots">>
              /\ ~HasKey(root, "handle")
              /\ Len(heap[root].children) = Len(Candidates)
              /\ \A i \in 1..Len(Candidates) :
                    IsPersonNode(heap[root].children[i], Candidates[i])
        /\ (Len(Candidates) = 0 /\ porder # <<>>) => IsPersonNode(root, porder[1])

\* The tree was built without a root handle over two candidates, one of
\* which has a child.
C3_Witness ==
    /\ Built
    /\ ~ExplicitRoot
    /\ Len(Candidates) >= 2
    /\ \E i \in 1..Len(heap[root].children) : Kids(heap[root].children[i]) # {}

\* The tree was built without a root handle and every person has a parent
\* family.
C3_WitnessFallback ==
    Built /\ ~ExplicitRoot /\ Len(Candidates) = 0 /\ porder # <<>>

\* The family record with handle fh.
FamilyOf(fh) == families[FamilyIndex(fh)]

RECURSIVE ListedChildren(_, _)
\* The child handles of the families of fap, family after family.
ListedChildren(fap, i) ==
    IF i > Len(fap) THEN <<>>
    ELSE FamilyOf(fap[i]).children \o ListedChildren(fap, i + 1)

RECURSIVE FirstOccurrences(_)
\* s without the entries that occur earlier in s.
FirstOccurrences(s) ==
    IF s = <<>> THEN <<>>
    ELSE LET front == SubSeq(s, 1, Len(s) - 1)
         IN  IF s[Len(s)] \in Range(front) THEN FirstOccurrences(front)
             ELSE Append(FirstOccurrences(front), s[Len(s)])

\* The children list of the node at a is, entry by entry, a node for each
\* handle of hs: the person's node if the handle is a key of people, and else
\* a leaf showing the raw handle.
ChildrenAre(a, hs) ==
    /\ Len(heap[a].children) = Len(hs)
    /\ \A i \in 1..Len(hs) :
          IF hs[i] \in DOMAIN people
          THEN IsPersonNode(heap[a].children[i], hs[i])
          ELSE IsLeafNode(heap[a].children[i], hs[i])

\* The built nodes of known persons: those whose children list is set.
BuiltPersonNodes ==
    {a \in 1..Len(heap) : HasKey(a, "handle") /\ HasKey(a, "children")}

\* C4 as stated: the children list of every built person node holds each
\* distinct child handle of the person's families exactly once, in the order
\* of first occurrence, unknown handles as leaves showing the raw handle.
C4_EveryChildHandle ==
    \A a \in BuiltPersonNodes :
        ChildrenAre(a, FirstOccurrences(
            ListedChildren(people[heap[a].handle].families_as_parent, 1)))

\* C4 as amended: the same for each distinct non-empty child handle; an empty
\* child handle gets no node.
C4_EveryNonEmptyChildHandle ==
    \A a \in BuiltPersonNodes :
        ChildrenAre(a, FirstOccurrences(
            SelectSeq(ListedChildren(people[heap[a].handle].families_as_parent, 1),
                      LAMBDA h : h # "")))

\* A built person node whose families repeat a child handle and list a
\* handle that is no key of people: one node each.
C4_Witness ==
    \E a \in BuiltPersonNodes :
        LET listed == ListedChildren(people[heap[a].handle].families_as_parent, 1)
        IN  /\ Len(listed) > Cardinality(Range(listed))
            /\ Unknown \in Range(listed)
            /\ \E h \in Range(listed) : h \in DOMAIN people
            /\ Len(heap[a].children) = 2

\* C7: with no person record and no explicit root handle build_treant_tree
\* runs through (its one step is the return) and returns a single node whose
\* children list is empty.
C7_NoPeople ==
    (porder = <<>> /\ ~ExplicitRoot) =>
        /\ pc = "build" => ENABLED FinishRoot
        /\ Built => /\ Len(heap) = 1
                    /\ HasKey(root, "children")
                    /\ heap[root].children = <<>>

\* The tree was built over no person, with families that name handles, and
\* without a root handle.
C7_Witness ==
    Built /\ porder = <<>> /\ ~ExplicitRoot /\ Len(families) >= 1

Parsed == pc = "parse" /\ ei > Len(elements)

\* The name entries of p whose formatted value is there.
Formatted(p) == {i \in 1..Len(p.names) : TruthyText(p.names[i].formatted)}

\* "given surname" of the first name entry, trimmed.
GivenSurname(p) ==
    Strip((IF TruthyText(p.names[1].given) THEN p.names[1].given ELSE <<>>)
          \o <<" ">>
          \o (IF TruthyText(p.names[1].surname) THEN p.names[1].surname ELSE <<>>))

\* C5 as stated: the display text of every parsed person is the formatted
\* value of the first name entry that has one, else the trimmed "given
\* surname", else (no name information) the person's handle; it is never
\* empty.
C5_DisplayText ==
    \A h \in DOMAIN shown :
        /\ shown[h] =
              IF Formatted(out[h]) # {}
              THEN out[h].names[CHOOSE i \in Formatted(out[h]) :
                                   \A k \in Formatted(out[h]) : i <= k].formatted
              ELSE IF GivenSurname(out[h]) # <<>> THEN GivenSurname(out[h])
              ELSE Str(h)
        /\ shown[h] # <<>>

\* C6 as stated: no two elements of a category are given the same handle, so
\* the mapping a parser returns holds one record per element.
C6_OneRecordPerElement ==
    Parsed => Cardinality(DOMAIN out) = Len(elements)

\* The handles the elements carry themselves are pairwise different.
ExplicitHandlesDistinct ==
    \A i, j \in 1..Len(elements) :
        (i < j /\ Truthy(extract_handle(elements[i])))
            => extract_handle(elements[i]) # extract_handle(elements[j])

\* C6 for inputs that repeat no handle of their own: one record per element.
\* (Violated too: a synthesized handle takes the key of an element that
\* carries it, or of an earlier synthesized one.)
C6_OneRecordPerDistinctElement ==
    (Parsed /\ ExplicitHandlesDistinct) => Cardinality(DOMAIN out) = Len(elements)

(***************************************************************************)
(* Coverage of the people mapping by the tree.                             *)
(***************************************************************************)
\* The persons that have a node among those reached from the root.
InTree == {h \in DOMAIN people : \E a \in Closure({root}) : IsPersonNode(a, h)}

\* C11 as stated: without an explicit root handle every person record has a
\* node that is reached from the returned root, whatever the mappings hold
\* (unresolved parent handles, cycles, several components).
C11_EveryPersonInTree ==
    (Built /\ ~ExplicitRoot) => InTree = DOMAIN people

====
